---- MODULE Spec2Model ----
(***************************************************************************)
(* Configuration loading, validation and normalisation layer of the job    *)
(* posting DQ pipeline (functions/utils/config.py, functions/llm/          *)
(* prompts.py).                                                            *)
(*                                                                         *)
(* Strings are sequences of one-character strings.  A raw YAML scalar is a *)
(* record [t, n, s]: t is its Python type, n its number (tenths for a      *)
(* float), s its text.                                                     *)
(***************************************************************************)
EXTENDS Integers, Sequences, FiniteSets, TLC

VARIABLES pc, entry, file, raw, result, arg, out, fs, proc

vars == <<pc, entry, file, raw, result, arg, out, fs, proc>>

(***************************************************************************)
(* Bounds of the model.                                                    *)
(***************************************************************************)
MaxStrLen == 3
MaxInt == 2

(***************************************************************************)
(* Strings.                                                                *)
(***************************************************************************)
Digits == {"0", "1", "2"}
Letters == {"a", "l", "A", "L"}
RowChars == Digits \cup Letters \cup {"-", " "}

StrsOver(A, n) == UNION {[1..k -> A] : k \in 0..n}

Str(s) == [t |-> "str", n |-> 0, s |-> s]
IntV(n) == [t |-> "int", n |-> n, s |-> <<>>]
FloatV(n) == [t |-> "float", n |-> n, s |-> <<>>]
BoolV(b) == [t |-> "bool", n |-> IF b THEN 1 ELSE 0, s |-> <<>>]
Tag(t) == [t |-> t, n |-> 0, s |-> <<>>]
Null == Tag("null")
Absent == Tag("absent")

\* Python's Optional[int]
None == [some |-> FALSE, n |-> 0]
Some(n) == [some |-> TRUE, n |-> n]

\* Outcome of one field validator: a value or a ValueError with its message
\* (the message is kept as the field path it names).
Ok(v) == [ok |-> TRUE, v |-> v, msg |-> ""]
Err(m) == [ok |-> FALSE, v |-> None, msg |-> m]

\* the characters str.strip() removes: the space, the no-break, figure and
\* narrow no-break spaces, carriage return and line feed (not the BOM)
Whitespace == {" ", "nbsp", "figsp", "nnbsp", "CR", "LF"}

RECURSIVE LStrip(_)
LStrip(s) == IF s # <<>> /\ Head(s) \in Whitespace THEN LStrip(Tail(s)) ELSE s

RECURSIVE RStrip(_)
RStrip(s) ==
  IF s # <<>> /\ s[Len(s)] \in Whitespace THEN RStrip(SubSeq(s, 1, Len(s) - 1)) ELSE s

\* str.strip()
Strip(s) == RStrip(LStrip(s))

LowerChar(c) == CASE c = "A" -> "a" [] c = "L" -> "l" [] OTHER -> c

\* str.lower()
Lower(s) == [i \in 1..Len(s) |-> LowerChar(s[i])]

DigitVal(c) == CASE c = "0" -> 0 [] c = "1" -> 1 [] c = "2" -> 2 [] OTHER -> 0

RECURSIVE DigitsVal(_)
DigitsVal(s) ==
  IF s = <<>> THEN 0
  ELSE DigitsVal(SubSeq(s, 1, Len(s) - 1)) * 10 + DigitVal(s[Len(s)])

AllDigits(s) == s # <<>> /\ \A i \in 1..Len(s) : s[i] \in Digits

\* int(s) for a string: surrounding whitespace ignored, optional sign, digits.
PyIntOk(s) ==
  LET u == Strip(s)
  IN  IF u # <<>> /\ Head(u) = "-" THEN AllDigits(Tail(u)) ELSE AllDigits(u)

PyInt(s) ==
  LET u == Strip(s)
  IN  IF u # <<>> /\ Head(u) = "-" THEN 0 - DigitsVal(Tail(u)) ELSE DigitsVal(u)

RowsMsg == "llm.max_rows_per_run"

\* Faulty variant: a non-positive integer string is kept instead of meaning "all".
ValidateMaxRowsKeepZero(v) ==
  IF v.t = "null" THEN Ok(None)
  ELSE IF v.t = "str" THEN
    LET s == Lower(Strip(v.s))
    IN  IF s = <<"a", "l", "l">> THEN Ok(None)
        ELSE IF ~PyIntOk(s) THEN Err(RowsMsg)
        ELSE IF PyInt(s) < 0 THEN Ok(None) ELSE Ok(Some(PyInt(s)))
  ELSE IF v.t \in {"int", "bool"} THEN (IF v.n <= 0 THEN Ok(None) ELSE Ok(Some(v.n)))
  ELSE Err(RowsMsg)

\* LLMConfig._validate_max_rows_per_run (mode="before")
ValidateMaxRows(v) ==
  IF v.t = "null" THEN Ok(None)
  ELSE IF v.t = "str" THEN
    LET s == Lower(Strip(v.s))
    IN  IF s = <<"a", "l", "l">> THEN Ok(None)
        ELSE IF ~PyIntOk(s) THEN Err(RowsMsg)
        ELSE IF PyInt(s) <= 0 THEN Ok(None) ELSE Ok(Some(PyInt(s)))
  ELSE IF v.t \in {"int", "bool"} THEN (IF v.n <= 0 THEN Ok(None) ELSE Ok(Some(v.n)))
  ELSE Err(RowsMsg)

(***************************************************************************)
(* Floats.  A float is [k, n]: finite (n tenths), NaN, +inf or -inf.       *)
(* Every ordered comparison with a NaN is false, as in Python.             *)
(***************************************************************************)
Fin(n) == [k |-> "fin", n |-> n]
NaN == [k |-> "nan", n |-> 0]
PInf == [k |-> "pinf", n |-> 0]
NInf == [k |-> "ninf", n |-> 0]

\* a < b on floats
FLess(a, b) ==
  /\ a.k # "nan" /\ b.k # "nan"
  /\ \/ a.k = "ninf" /\ b.k # "ninf"
     \/ b.k = "pinf" /\ a.k # "pinf"
     \/ a.k = "fin" /\ b.k = "fin" /\ a.n < b.n

\* int(x) of a finite float given in tenths: truncation toward zero
Trunc10(n) == IF n >= 0 THEN n \div 10 ELSE 0 - ((0 - n) \div 10)

\* The field type `float` of temperature: numbers pass (NaN and the infinities
\* included), anything else is a type error of the field.
CoerceFloat(v) ==
  CASE v.t = "int" -> [ok |-> TRUE, v |-> Fin(10 * v.n)]
    [] v.t = "float" -> [ok |-> TRUE, v |-> Fin(v.n)]
    [] v.t = "nan" -> [ok |-> TRUE, v |-> NaN]
    [] v.t = "pinf" -> [ok |-> TRUE, v |-> PInf]
    [] v.t = "ninf" -> [ok |-> TRUE, v |-> NInf]
    [] OTHER -> [ok |-> FALSE, v |-> Fin(0)]

\* The field type `int` of max_workers and max_retries: an integer, or a float
\* without a fractional part.
CoerceInt(v) ==
  CASE v.t = "int" -> [ok |-> TRUE, v |-> v.n]
    [] v.t = "float" /\ v.n % 10 = 0 -> [ok |-> TRUE, v |-> v.n \div 10]
    [] OTHER -> [ok |-> FALSE, v |-> 0]

\* LLMConfig._validate_temperature
ValidateTemperature(v) == ~(FLess(v, Fin(0)) \/ FLess(Fin(20), v))

\* LLMConfig._validate_positive_int
ValidatePositiveInt(v) == ~(v <= 0)

DefaultProgressLogEvery == 100

\* int(v) inside _validate_progress_log_every
PleInt(v) ==
  CASE v.t \in {"int", "bool"} -> [ok |-> TRUE, v |-> v.n]
    [] v.t = "float" -> [ok |-> TRUE, v |-> Trunc10(v.n)]
    [] v.t = "str" /\ PyIntOk(v.s) -> [ok |-> TRUE, v |-> PyInt(v.s)]
    [] OTHER -> [ok |-> FALSE, v |-> 0]

\* LLMConfig._validate_progress_log_every (mode="before")
ValidateProgressLogEvery(v) ==
  IF v.t = "null" THEN [ok |-> TRUE, v |-> DefaultProgressLogEvery]
  ELSE IF ~PleInt(v).ok THEN [ok |-> FALSE, v |-> 0]
  ELSE IF PleInt(v).v <= 0 THEN [ok |-> FALSE, v |-> 0]
  ELSE PleInt(v)

(***************************************************************************)
(* Parameter models.  A section of the raw document is [kind, f]: kind is  *)
(* "absent" (no such key), "map" (f holds its fields, a missing one being  *)
(* Absent) or the type of a value that is no mapping.                      *)
(***************************************************************************)
LLMFields ==
  <<"temperature", "progress_log_every", "max_workers", "max_retries",
    "max_rows_per_run">>

NoLLMFields ==
  [temperature |-> Absent, progress_log_every |-> Absent, max_workers |-> Absent,
   max_retries |-> Absent, max_rows_per_run |-> Absent]

\* class LLMConfig: the defaults
DefaultLLM ==
  [temperature |-> Fin(3), progress_log_every |-> DefaultProgressLogEvery,
   max_workers |-> 4, max_retries |-> 3, max_rows_per_run |-> None]

\* temperature: float = 0.3, then _validate_temperature
TemperatureField(v) ==
  IF v.t = "absent" THEN [ok |-> TRUE, v |-> DefaultLLM.temperature]
  ELSE IF ~CoerceFloat(v).ok THEN [ok |-> FALSE, v |-> Fin(0)]
  ELSE IF ~ValidateTemperature(CoerceFloat(v).v) THEN [ok |-> FALSE, v |-> Fin(0)]
  ELSE CoerceFloat(v)

\* max_workers: int = 4 and max_retries: int = 3, then _validate_positive_int
PositiveIntField(v, default) ==
  IF v.t = "absent" THEN [ok |-> TRUE, v |-> default]
  ELSE IF ~CoerceInt(v).ok THEN [ok |-> FALSE, v |-> 0]
  ELSE IF ~ValidatePositiveInt(CoerceInt(v).v) THEN [ok |-> FALSE, v |-> 0]
  ELSE CoerceInt(v)

\* progress_log_every: int = 100 behind its "before" validator
ProgressLogEveryField(v) ==
  IF v.t = "absent" THEN [ok |-> TRUE, v |-> DefaultLLM.progress_log_every]
  ELSE ValidateProgressLogEvery(v)

\* max_rows_per_run: Optional[int] = None behind its "before" validator
MaxRowsField(v) ==
  IF v.t = "absent" THEN [ok |-> TRUE, v |-> None]
  ELSE [ok |-> ValidateMaxRows(v).ok, v |-> ValidateMaxRows(v).v]

LLMField(f, name) ==
  CASE name = "temperature" -> TemperatureField(f.temperature)
    [] name = "progress_log_every" -> ProgressLogEveryField(f.progress_log_every)
    [] name = "max_workers" -> PositiveIntField(f.max_workers, DefaultLLM.max_workers)
    [] name = "max_retries" -> PositiveIntField(f.max_retries, DefaultLLM.max_retries)
    [] name = "max_rows_per_run" -> MaxRowsField(f.max_rows_per_run)

LLMPath(name) ==
  CASE name = "temperature" -> "llm.temperature"
    [] name = "progress_log_every" -> "llm.progress_log_every"
    [] name = "max_workers" -> "llm.max_workers"
    [] name = "max_retries" -> "llm.max_retries"
    [] name = "max_rows_per_run" -> "llm.max_rows_per_run"

\* Faulty variant: validation stops at the first invalid field, in declaration order.
LLMErrorsFirstOnly(f) ==
  LET bad == {i \in 1..Len(LLMFields) : ~LLMField(f, LLMFields[i]).ok}
  IN  {LLMPath(LLMFields[i]) : i \in {j \in bad : \A k \in bad : j <= k}}

\* Validation of the LLMConfig fields: every field is validated, and the
\* ValidationError lists each one that failed.
LLMErrors(f) ==
  {LLMPath(LLMFields[i]) : i \in {j \in 1..Len(LLMFields) : ~LLMField(f, LLMFields[j]).ok}}

LLMValue(f) ==
  [temperature |-> LLMField(f, "temperature").v,
   progress_log_every |-> LLMField(f, "progress_log_every").v,
   max_workers |-> LLMField(f, "max_workers").v,
   max_retries |-> LLMField(f, "max_retries").v,
   max_rows_per_run |-> LLMField(f, "max_rows_per_run").v]

\* llm: LLMConfig = Field(default_factory=LLMConfig)
ValidateLLM(sec) ==
  CASE sec.kind = "absent" -> [errors |-> {}, v |-> DefaultLLM]
    [] sec.kind = "map" -> [errors |-> LLMErrors(sec.f), v |-> LLMValue(sec.f)]
    [] OTHER -> [errors |-> {"llm"}, v |-> DefaultLLM]

NoInputsFields == [raw_postings_csv |-> Absent]

\* class InputsConfig: the defaults (one of its six path fields is modelled)
DefaultInputs == [raw_postings_csv |-> <<"raw_data/Thailand_global_postings.csv">>]

\* a `str` field: only a string passes
StrField(v, default) ==
  CASE v.t = "absent" -> [ok |-> TRUE, v |-> default]
    [] v.t = "str" -> [ok |-> TRUE, v |-> v.s]
    [] OTHER -> [ok |-> FALSE, v |-> <<>>]

\* inputs: InputsConfig = Field(default_factory=InputsConfig)
ValidateInputs(sec) ==
  CASE sec.kind = "absent" -> [errors |-> {}, v |-> DefaultInputs]
    [] sec.kind = "map" ->
         LET r == StrField(sec.f.raw_postings_csv, DefaultInputs.raw_postings_csv)
         IN  [errors |-> IF r.ok THEN {} ELSE {"inputs.raw_postings_csv"},
              v |-> [raw_postings_csv |-> r.v]]
    [] OTHER -> [errors |-> {"inputs"}, v |-> DefaultInputs]

DefaultPromptKey == <<"job_posting_dq_eval_v1">>

AbsentInputs == [kind |-> "absent", f |-> NoInputsFields]
AbsentLLM == [kind |-> "absent", f |-> NoLLMFields]

\* Faulty variant: the legacy key `input` is not renamed.
BackwardCompatKeysNoRename(data) == data

\* ParametersConfig._backward_compat_keys (the root is a mapping here)
BackwardCompatKeys(data) ==
  IF data.inputs.kind = "absent" /\ data.input.kind # "absent" /\ data.input.kind = "map"
  THEN [data EXCEPT !.inputs = data.input, !.input = AbsentInputs]
  ELSE data

\* ParametersConfig.model_validate on the transformed document; the key
\* `input`, like any unknown key, is ignored.
ValidateParameters(d) ==
  LET i == ValidateInputs(d.inputs)
      l == ValidateLLM(d.llm)
      k == StrField(d.prompt_key, DefaultPromptKey)
  IN  [errors |-> i.errors \cup l.errors \cup (IF k.ok THEN {} ELSE {"prompt_key"}),
       v |-> [inputs |-> i.v, llm |-> l.v, prompt_key |-> k.v]]

(***************************************************************************)
(* Text sanitizer (functions/llm/prompts.py).  The marked code points are  *)
(* the characters "nbsp", "figsp", "nnbsp" and "bom"; "CR" and "LF" are    *)
(* carriage return and line feed.                                          *)
(***************************************************************************)
BadWhitespace == {"nbsp", "figsp", "nnbsp", "bom"}
SanChars == BadWhitespace \cup {" ", "CR", "LF", "a"}

\* text.replace("\r\n", "\n"): left to right, without overlap
RECURSIVE ReplaceCRLF(_)
ReplaceCRLF(s) ==
  IF Len(s) < 2 THEN s
  ELSE IF s[1] = "CR" /\ s[2] = "LF" THEN <<"LF">> \o ReplaceCRLF(SubSeq(s, 3, Len(s)))
  ELSE <<s[1]>> \o ReplaceCRLF(Tail(s))

\* for ch in _BAD_WHITESPACE: text = text.replace(ch, " ")
ReplaceBad(s) == [i \in 1..Len(s) |-> IF s[i] \in BadWhitespace THEN " " ELSE s[i]]

\* _sanitize_prompt_text on a string
SanitizePromptText(s) == ReplaceCRLF(ReplaceBad(s))

(***************************************************************************)
(* YAML documents as parsed by yaml.safe_load.  A file is [exists, root];  *)
(* a root is [kind, truthy, m]: kind "error" (not well-formed), "null",    *)
(* "scalar", "list" or "map"; truthy is Python's truth value of the parsed *)
(* value; m holds the keys the loaders read (a missing key being absent).  *)
(***************************************************************************)
AbsentSection == [kind |-> "absent"]

EmptyMap ==
  [input |-> AbsentInputs, inputs |-> AbsentInputs, llm |-> AbsentLLM,
   prompt_key |-> Absent,
   meta |-> AbsentSection, prompts |-> [kind |-> "absent", items |-> <<>>],
   system_prompt_spaced |-> Absent, system_prompt |-> Absent,
   gemini |-> [kind |-> "absent", api_key_env |-> Absent]]

NoResult == [status |-> "none", err |-> "", fields |-> {}, key |-> Absent, val |-> <<>>]
Returned(v) == [status |-> "ok", err |-> "", fields |-> {}, key |-> Absent, val |-> <<v>>]
Raised(e, fields, key) ==
  [status |-> "error", err |-> e, fields |-> fields, key |-> key, val |-> <<>>]

\* _load_yaml: `yaml.safe_load(text) or {}`, then the isinstance(data, dict) test
LoadYaml(f) ==
  IF ~f.exists THEN [ok |-> FALSE, err |-> "NotFound", data |-> EmptyMap]
  ELSE IF f.root.kind = "error" THEN [ok |-> FALSE, err |-> "ParseError", data |-> EmptyMap]
  ELSE IF ~f.root.truthy THEN [ok |-> TRUE, err |-> "", data |-> EmptyMap]
  ELSE IF f.root.kind # "map" THEN [ok |-> FALSE, err |-> "RootNotMapping", data |-> EmptyMap]
  ELSE [ok |-> TRUE, err |-> "", data |-> f.root.m]

\* the first entry of prompts.items() that is not string -> string, or 0
FirstBadItem(items) ==
  LET bad == {i \in 1..Len(items) : items[i].k.t # "str" \/ items[i].v.t # "str"}
  IN  IF bad = {} THEN 0 ELSE CHOOSE i \in bad : \A j \in bad : i <= j

\* Faulty variant: only the keys of `prompts` are checked to be strings.
PromptsOfKeysOnly(data) ==
  IF data.meta.kind # "map" THEN Raised("MissingMeta", {}, Absent)
  ELSE IF data.prompts.kind # "map" THEN Raised("MissingPrompts", {}, Absent)
  ELSE IF \E i \in 1..Len(data.prompts.items) : data.prompts.items[i].k.t # "str"
       THEN Raised("BadPromptEntry", {}, Absent)
  ELSE Returned([i \in 1..Len(data.prompts.items) |->
                  [k |-> data.prompts.items[i].k.s, v |-> data.prompts.items[i].v.s]])

\* load_prompts after _load_yaml: the result, a dict in insertion order
PromptsOf(data) ==
  IF data.meta.kind # "map" THEN Raised("MissingMeta", {}, Absent)
  ELSE IF data.prompts.kind # "map" THEN Raised("MissingPrompts", {}, Absent)
  ELSE IF FirstBadItem(data.prompts.items) # 0
       THEN Raised("BadPromptEntry", {},
                   data.prompts.items[FirstBadItem(data.prompts.items)].k)
  ELSE Returned([i \in 1..Len(data.prompts.items) |->
                  [k |-> data.prompts.items[i].k.s, v |-> data.prompts.items[i].v.s]])

\* load_prompt_templates after load_prompts returned: every template sanitized
CleanTemplates(prompts) ==
  [i \in 1..Len(prompts) |-> [k |-> prompts[i].k, v |-> SanitizePromptText(prompts[i].v)]]

\* Faulty variant: only the key `System Prompt` is read.
PromptOfNoFallback(data) ==
  LET v == data.system_prompt_spaced
  IN  IF v.t # "str" \/ Strip(v.s) = <<>> THEN Raised("EmptyPrompt", {}, Absent)
      ELSE Returned(v.s)

\* load_prompt after _load_yaml
PromptOf(data) ==
  LET v == IF data.system_prompt_spaced.t \in {"absent", "null"}
           THEN data.system_prompt ELSE data.system_prompt_spaced
  IN  IF v.t # "str" \/ Strip(v.s) = <<>> THEN Raised("EmptyPrompt", {}, Absent)
      ELSE Returned(v.s)

DefaultApiKeyEnv == <<"GEMINI_API_KEY">>
DefaultTimeoutSeconds == 60

\* CredentialsConfig.model_validate
CredentialsOf(data) ==
  CASE data.gemini.kind = "absent" ->
         Returned([api_key_env |-> DefaultApiKeyEnv, timeout_seconds |-> DefaultTimeoutSeconds])
    [] data.gemini.kind = "map" ->
         LET r == StrField(data.gemini.api_key_env, DefaultApiKeyEnv)
         IN  IF r.ok
             THEN Returned([api_key_env |-> r.v, timeout_seconds |-> DefaultTimeoutSeconds])
             ELSE Raised("Validation", {"gemini.api_key_env"}, Absent)
    [] OTHER -> Raised("Validation", {"gemini"}, Absent)

(***************************************************************************)
(* The documents the loaders are run on.                                   *)
(***************************************************************************)
IntVals == {IntV(n) : n \in (0 - MaxInt)..MaxInt}

\* temperatures around both ends of [0.0, 2.0], in tenths
EdgeTenths == {0 - 1, 0, 1, 19, 20, 21}

TemperatureRaws ==
  {Absent, Null, Tag("nan"), Tag("pinf"), Tag("ninf"), Str(<<"a">>)}
    \cup {IntV(n) : n \in (0 - 1)..(MaxInt + 1)} \cup {FloatV(n) : n \in EdgeTenths}

WorkersRaws == {Absent, Null, Str(<<"a">>), FloatV(10), FloatV(15)} \cup IntVals

RetriesRaws == {Absent} \cup IntVals

ProgressRaws ==
  {Absent, Null, BoolV(TRUE), FloatV(0 - 5), FloatV(15), Tag("nan"), Tag("list"),
   Str(<<"a">>), Str(<<"0">>), Str(<<" ", "2">>)} \cup IntVals

RowsRaws == {Absent, Null, IntV(0), IntV(MaxInt), Str(<<"A", "l", "L">>), Str(<<"a">>)}

LLMSections ==
  {[kind |-> "map", f |-> f] :
     f \in [temperature : TemperatureRaws, progress_log_every : ProgressRaws,
            max_workers : WorkersRaws, max_retries : {Absent, IntV(0)},
            max_rows_per_run : {Absent, Str(<<"a">>)}]
           \cup [temperature : {Absent, Tag("pinf")}, progress_log_every : {Absent},
                 max_workers : {Absent, IntV(1)}, max_retries : RetriesRaws,
                 max_rows_per_run : RowsRaws]}

InputsSections ==
  {AbsentInputs, [kind |-> "null", f |-> NoInputsFields],
   [kind |-> "str", f |-> NoInputsFields]}
    \cup {[kind |-> "map", f |-> [raw_postings_csv |-> v]] :
            v \in {Absent, Str(<<"p.csv">>), IntV(1)}}

FewLLMSections ==
  {AbsentLLM, [kind |-> "str", f |-> NoLLMFields],
   [kind |-> "map", f |-> [NoLLMFields EXCEPT !.temperature = IntV(3)]],
   [kind |-> "map", f |-> [NoLLMFields EXCEPT !.max_workers = IntV(1)]]}

ParameterMaps ==
  {[EmptyMap EXCEPT !.llm = l] : l \in LLMSections}
    \cup {[EmptyMap EXCEPT !.input = i, !.inputs = j, !.llm = l, !.prompt_key = k] :
            i \in InputsSections, j \in InputsSections, l \in FewLLMSections,
            k \in {Absent, Str(<<"k1">>), IntV(1)}}

PromptTexts == {<<"a">>, <<"nbsp", "a">>, <<"a", "CR", "LF">>}

PromptItems ==
  {[k |-> k, v |-> v] :
     k \in {Str(<<"p1">>), Str(<<"p2">>), IntV(1)},
     v \in {Str(s) : s \in PromptTexts} \cup {IntV(1), Null}}

MaxPrompts == 2

\* the entries of `prompts`: keys are distinct, as in any mapping
PromptLists ==
  {l \in UNION {[1..n -> PromptItems] : n \in 0..MaxPrompts} :
     \A i, j \in 1..Len(l) : i # j => l[i].k # l[j].k}

PromptsSections ==
  {[kind |-> "absent", items |-> <<>>], [kind |-> "null", items |-> <<>>],
   [kind |-> "list", items |-> <<>>]}
    \cup {[kind |-> "map", items |-> l] : l \in PromptLists}

MetaSections == {AbsentSection, [kind |-> "null"], [kind |-> "str"], [kind |-> "map"]}

PromptsMaps ==
  {[EmptyMap EXCEPT !.meta = m, !.prompts = p] : m \in MetaSections, p \in PromptsSections}

MaxPromptLen == 2
PromptChars == {" ", "nbsp", "bom", "a"}

PromptRaws ==
  {Absent, Null, IntV(1), Tag("list")} \cup {Str(s) : s \in StrsOver(PromptChars, MaxPromptLen)}

PromptMaps ==
  {[EmptyMap EXCEPT !.system_prompt_spaced = a, !.system_prompt = b] :
     a \in PromptRaws, b \in PromptRaws}

CredentialsMaps ==
  {[EmptyMap EXCEPT !.gemini = g] :
     g \in {[kind |-> "absent", api_key_env |-> Absent],
            [kind |-> "null", api_key_env |-> Absent]}
             \cup {[kind |-> "map", api_key_env |-> v] :
                     v \in {Absent, Str(<<"MY_KEY">>), Str(<<>>), IntV(1)}}}

Entries ==
  {"load_parameters", "load_prompt", "load_prompts", "load_prompt_templates",
   "load_credentials"}

MapsFor(e) ==
  CASE e = "load_parameters" -> ParameterMaps
    [] e = "load_prompt" -> PromptMaps
    [] e \in {"load_prompts", "load_prompt_templates"} -> PromptsMaps
    [] e = "load_credentials" -> CredentialsMaps

\* roots that are no mapping: an empty document, scalars and lists, falsy
\* (0, "", false, []) or not, and text that is not well-formed
OtherRoots ==
  {[kind |-> "error", truthy |-> FALSE, m |-> EmptyMap],
   [kind |-> "null", truthy |-> FALSE, m |-> EmptyMap]}
    \cup {[kind |-> k, truthy |-> b, m |-> EmptyMap] :
            k \in {"scalar", "list"}, b \in BOOLEAN}

\* a mapping is truthy unless it is empty
MapRoot(m) == [kind |-> "map", truthy |-> m # EmptyMap, m |-> m]

FilesFor(e) ==
  {[exists |-> FALSE, root |-> MapRoot(EmptyMap)]}
    \cup {[exists |-> TRUE, root |-> r] : r \in OtherRoots}
    \cup {[exists |-> TRUE, root |-> MapRoot(m)] : m \in MapsFor(e)}

(***************************************************************************)
(* Specification of the loaders: one call of one entry point on one file.  *)
(***************************************************************************)
Init ==
  /\ entry \in Entries
  /\ file \in FilesFor(entry)
  /\ pc = "start"
  /\ raw = EmptyMap
  /\ result = NoResult
  /\ arg = Absent /\ out = NoResult /\ fs = {} /\ proc = <<>>

Loaded(e) == entry = e /\ pc = "start" /\ LoadYaml(file).ok

\* any entry point: _load_yaml raises
LoadFails ==
  /\ entry \in Entries /\ pc = "start"
  /\ ~LoadYaml(file).ok
  /\ result' = Raised(LoadYaml(file).err, {}, Absent)
  /\ pc' = "done"
  /\ UNCHANGED <<entry, file, raw, arg, out, fs, proc>>

\* load_parameters; raw is the dict model_validate was given, as it leaves it
LoadParameters ==
  /\ Loaded("load_parameters")
  /\ raw' = BackwardCompatKeys(LoadYaml(file).data)
  /\ LET r == ValidateParameters(raw')
     IN  result' = IF r.errors = {} THEN Returned(r.v)
                   ELSE Raised("Validation", r.errors, Absent)
  /\ pc' = "done"
  /\ UNCHANGED <<entry, file, arg, out, fs, proc>>

LoadPrompt ==
  /\ Loaded("load_prompt")
  /\ raw' = LoadYaml(file).data
  /\ result' = PromptOf(raw')
  /\ pc' = "done"
  /\ UNCHANGED <<entry, file, arg, out, fs, proc>>

LoadPrompts ==
  /\ Loaded("load_prompts")
  /\ raw' = LoadYaml(file).data
  /\ result' = PromptsOf(raw')
  /\ pc' = "done"
  /\ UNCHANGED <<entry, file, arg, out, fs, proc>>

LoadPromptTemplates ==
  /\ Loaded("load_prompt_templates")
  /\ raw' = LoadYaml(file).data
  /\ LET r == PromptsOf(raw')
     IN  result' = IF r.status = "ok" THEN Returned(CleanTemplates(r.val[1])) ELSE r
  /\ pc' = "done"
  /\ UNCHANGED <<entry, file, arg, out, fs, proc>>

LoadCredentials ==
  /\ Loaded("load_credentials")
  /\ raw' = LoadYaml(file).data
  /\ result' = CredentialsOf(raw')
  /\ pc' = "done"
  /\ UNCHANGED <<entry, file, arg, out, fs, proc>>

Next ==
  \/ LoadFails
  \/ LoadParameters
  \/ LoadPrompt
  \/ LoadPrompts
  \/ LoadPromptTemplates
  \/ LoadCredentials

Spec == Init /\ [][Next]_vars

(***************************************************************************)
(* Specification of the max_rows_per_run canonicalisation: the input is    *)
(* any raw scalar, the one action applies the validator.                   *)
(***************************************************************************)
RowsInputs ==
  {Null} \cup {IntV(n) : n \in (0 - MaxInt)..MaxInt}
         \cup {Str(s) : s \in StrsOver(RowChars, MaxStrLen)}
         \cup {FloatV(15), Tag("list")}

Idle == [status |-> "none", v |-> None, msg |-> ""]

InitRows ==
  /\ arg \in RowsInputs
  /\ out = Idle
  /\ pc = "start"
  /\ entry = "rows" /\ file = Absent /\ raw = EmptyMap /\ result = NoResult
  /\ fs = {} /\ proc = <<>>

ApplyMaxRows ==
  /\ entry = "rows" /\ pc = "start"
  /\ LET r == ValidateMaxRows(arg)
     IN  out' = [status |-> IF r.ok THEN "ok" ELSE "error", v |-> r.v, msg |-> r.msg]
  /\ pc' = "done"
  /\ UNCHANGED <<entry, file, raw, result, arg, fs, proc>>

NextRows == ApplyMaxRows

SpecRows == InitRows /\ [][NextRows]_vars

(***************************************************************************)
(* C2 -- canonicalisation of llm.max_rows_per_run.                         *)
(***************************************************************************)
AllVariants == {<<a, b, c>> : a \in {"a", "A"}, b \in {"l", "L"}, c \in {"l", "L"}}

RECURSIVE Pow10(_)
Pow10(k) == IF k = 0 THEN 1 ELSE 10 * Pow10(k - 1)

RECURSIVE PosSum(_, _)
PosSum(ds, i) ==
  IF i > Len(ds) THEN 0
  ELSE DigitVal(ds[i]) * Pow10(Len(ds) - i) + PosSum(ds, i + 1)

\* An integer literal: optional minus sign, then one or more digits.
IsNumLit(s) ==
  /\ s # <<>>
  /\ \/ \A i \in 1..Len(s) : s[i] \in Digits
     \/ Len(s) > 1 /\ s[1] = "-" /\ \A i \in 2..Len(s) : s[i] \in Digits

NumLitVal(s) == IF s[1] = "-" THEN 0 - PosSum(Tail(s), 1) ELSE PosSum(s, 1)

Canon(n) == IF n <= 0 THEN None ELSE Some(n)

Spaces(k) == [i \in 1..k |-> " "]

\* s is core with ordinary spaces added before and after it
Padded(s, core) ==
  \E i, j \in 0..Len(s) : s = Spaces(i) \o core \o Spaces(j)

Cores(s) == {SubSeq(s, a, b) : a \in 1..(Len(s) + 1), b \in 0..Len(s)}

RowsIs(v) == out.status = "ok" /\ out.v = v
RowsFails == out.status = "error" /\ out.msg = "llm.max_rows_per_run"

\* C2 as stated: null, "all" in any letter case and non-positive integers (as
\* integers or numeric strings) give None; a positive integer n gives n; any
\* other string fails with an error naming llm.max_rows_per_run.
C2_AsStated ==
  (entry = "rows" /\ pc = "done") =>
    /\ arg.t = "null" => RowsIs(None)
    /\ arg.t = "int" => RowsIs(Canon(arg.n))
    /\ (arg.t = "str" /\ arg.s \in AllVariants) => RowsIs(None)
    /\ (arg.t = "str" /\ IsNumLit(arg.s)) => RowsIs(Canon(NumLitVal(arg.s)))
    /\ (arg.t = "str" /\ arg.s \notin AllVariants /\ ~IsNumLit(arg.s)) => RowsFails

\* C2 as amended: the same, with whitespace around the string ignored: a string
\* fails exactly when, with its surrounding spaces removed, it is neither "all"
\* in some letter case nor an integer literal.
C2_RowsCanonical ==
  (entry = "rows" /\ pc = "done") =>
    /\ arg.t = "null" => RowsIs(None)
    /\ arg.t = "int" => RowsIs(Canon(arg.n))
    /\ arg.t = "str" =>
         /\ \A core \in Cores(arg.s) :
              /\ (core \in AllVariants /\ Padded(arg.s, core)) => RowsIs(None)
              /\ (IsNumLit(core) /\ Padded(arg.s, core)) =>
                   RowsIs(Canon(NumLitVal(core)))
         /\ (~\E core \in Cores(arg.s) :
               Padded(arg.s, core) /\ (core \in AllVariants \/ IsNumLit(core)))
            => RowsFails

\* A numeric string with a leading space has been canonicalised to its integer.
C2_Witness ==
  /\ entry = "rows" /\ pc = "done"
  /\ arg = Str(<<" ", "1", "2">>)
  /\ RowsIs(Some(12))

(***************************************************************************)
(* Claims about load_parameters.                                           *)
(***************************************************************************)
ParamsDone == entry = "load_parameters" /\ pc = "done"
ParamsFromMap == ParamsDone /\ file.exists /\ file.root.kind = "map"
Doc == file.root.m

\* a <= b on floats
FLeq(a, b) == a.k # "nan" /\ b.k # "nan" /\ (a = b \/ FLess(a, b))

InRange(x) == FLeq(Fin(0), x) /\ FLeq(x, Fin(20))

OnlyLLM(f) == file = [exists |-> TRUE, root |-> MapRoot([EmptyMap EXCEPT !.llm = [kind |-> "map", f |-> f]])]

\* C1 as stated: load_parameters raises and returns nothing, or returns a
\* config with 0.0 <= temperature <= 2.0 and max_workers, max_retries and
\* progress_log_every all > 0; llm {max_workers: 0} fails and llm
\* {max_workers: 1} succeeds with progress_log_every = 100.
C1_AsStated ==
  ParamsDone =>
    /\ \/ result.status = "error" /\ result.val = <<>>
       \/ /\ result.status = "ok"
          /\ InRange(result.val[1].llm.temperature)
          /\ result.val[1].llm.max_workers > 0
          /\ result.val[1].llm.max_retries > 0
          /\ result.val[1].llm.progress_log_every > 0
    /\ OnlyLLM([NoLLMFields EXCEPT !.max_workers = IntV(0)]) => result.status = "error"
    /\ OnlyLLM([NoLLMFields EXCEPT !.max_workers = IntV(1)]) =>
         result.status = "ok" /\ result.val[1].llm.progress_log_every = 100

TemperatureGiven == Doc.llm.kind = "map" /\ CoerceFloat(Doc.llm.f.temperature).ok

OthersValid ==
  /\ ValidateInputs(BackwardCompatKeys(Doc).inputs).errors = {}
  /\ Doc.prompt_key.t \in {"absent", "str"}
  /\ \A i \in 2..Len(LLMFields) : LLMField(Doc.llm.f, LLMFields[i]).ok

\* C3 as stated: a temperature outside [0.0, 2.0] fails with an error naming
\* llm.temperature; one inside it, with all other fields valid, succeeds.
C3_AsStated ==
  (ParamsFromMap /\ TemperatureGiven) =>
    /\ ~InRange(CoerceFloat(Doc.llm.f.temperature).v) =>
         result.status = "error" /\ "llm.temperature" \in result.fields
    /\ (InRange(CoerceFloat(Doc.llm.f.temperature).v) /\ OthersValid) =>
         result.status = "ok"

TemperatureOffends ==
  \/ Doc.llm.f.temperature.t = "int" /\ Doc.llm.f.temperature.n \notin 0..2
  \/ Doc.llm.f.temperature.t = "float" /\ Doc.llm.f.temperature.n \notin 0..20
  \/ Doc.llm.f.temperature.t \in {"pinf", "ninf", "str", "null"}

WorkersOffend ==
  \/ Doc.llm.f.max_workers.t = "int" /\ Doc.llm.f.max_workers.n <= 0
  \/ Doc.llm.f.max_workers.t \in {"str", "null"}

RetriesOffend == Doc.llm.f.max_retries.t = "int" /\ Doc.llm.f.max_retries.n <= 0

ProgressOffends ==
  \/ Doc.llm.f.progress_log_every.t = "int" /\ Doc.llm.f.progress_log_every.n <= 0
  \/ Doc.llm.f.progress_log_every.t \in {"list", "nan"}
  \/ /\ Doc.llm.f.progress_log_every.t = "str"
     /\ \E i \in 1..Len(Doc.llm.f.progress_log_every.s) :
          Doc.llm.f.progress_log_every.s[i] \in Letters

RowsOffend ==
  /\ Doc.llm.f.max_rows_per_run.t = "str"
  /\ Len(Doc.llm.f.max_rows_per_run.s) = 1
  /\ Doc.llm.f.max_rows_per_run.s[1] \in Letters

\* C4: the validation error of load_parameters names every offending field of
\* llm, whatever the other fields are: an out-of-range temperature, a
\* max_workers or max_retries <= 0, a non-numeric progress_log_every and a bad
\* max_rows_per_run string are each reported, together when several offend.
C4_EveryFieldReported ==
  (ParamsFromMap /\ Doc.llm.kind = "map") =>
    /\ TemperatureOffends => "llm.temperature" \in result.fields
    /\ WorkersOffend => "llm.max_workers" \in result.fields
    /\ RetriesOffend => "llm.max_retries" \in result.fields
    /\ ProgressOffends => "llm.progress_log_every" \in result.fields
    /\ RowsOffend => "llm.max_rows_per_run" \in result.fields

\* Three fields offend at once and the error names the three of them.
C4_Witness ==
  /\ ParamsFromMap /\ Doc.llm.kind = "map"
  /\ Doc.llm.f.temperature = IntV(3)
  /\ Doc.llm.f.max_workers = IntV(0)
  /\ Doc.llm.f.progress_log_every = Str(<<"a">>)
  /\ result.status = "error"
  /\ {"llm.temperature", "llm.max_workers", "llm.progress_log_every"} \subseteq result.fields

(***************************************************************************)
(* C6 -- roots that are no mapping.                                        *)
(***************************************************************************)
\* C6 as stated: at every entry point a document whose root is a list or a
\* scalar fails with the root-must-be-a-mapping error.
C6_AsStated ==
  (pc = "done" /\ entry \in Entries /\ file.exists /\ file.root.kind \in {"list", "scalar"}) =>
    result.status = "error" /\ result.err = "RootNotMapping"

(***************************************************************************)
(* C7 -- the legacy key `input`.                                           *)
(***************************************************************************)
Outcome(d) ==
  IF ValidateParameters(d).errors = {} THEN Returned(ValidateParameters(d).v)
  ELSE Raised("Validation", ValidateParameters(d).errors, Absent)

Legacy == Doc.inputs.kind = "absent" /\ Doc.input.kind = "map"

\* C7: a document with `input` = m (a mapping) and no `inputs` validates as the
\* document with m under `inputs` instead does (same config, or failure on the
\* same fields), and the transformer leaves every other key as it was.
C7_LegacyInputEquivalent ==
  ParamsFromMap =>
    /\ Legacy => result = Outcome([Doc EXCEPT !.inputs = Doc.input, !.input = AbsentInputs])
    /\ raw.llm = Doc.llm /\ raw.prompt_key = Doc.prompt_key
    /\ raw.meta = Doc.meta /\ raw.prompts = Doc.prompts /\ raw.gemini = Doc.gemini
    /\ ~Legacy => raw = Doc

\* A legacy document whose path is taken from `input`.
C7_Witness ==
  /\ ParamsFromMap /\ Legacy
  /\ Doc.input.f.raw_postings_csv = Str(<<"p.csv">>)
  /\ result.status = "ok"
  /\ result.val[1].inputs.raw_postings_csv = <<"p.csv">>

(***************************************************************************)
(* C10 -- load_prompts and load_prompt_templates.                          *)
(***************************************************************************)
Items == Doc.prompts.items
BadItems == {i \in 1..Len(Items) : Items[i].k.t # "str" \/ Items[i].v.t # "str"}
NoBad(s) == \A i \in 1..Len(s) : s[i] \notin BadWhitespace

\* C10: load_prompts fails with a schema error when `meta` or `prompts` is
\* absent or no mapping, and when an entry of `prompts` has a key or a value
\* that is no string (the error naming such a key); otherwise it returns the
\* entries of `prompts`, and load_prompt_templates returns the same keys with
\* every value sanitized.
C10_PromptsSchema ==
  (pc = "done" /\ entry \in {"load_prompts", "load_prompt_templates"}
     /\ file.exists /\ file.root.kind = "map") =>
    /\ Doc.meta.kind # "map" => result.status = "error" /\ result.err = "MissingMeta"
    /\ (Doc.meta.kind = "map" /\ Doc.prompts.kind # "map") =>
         result.status = "error" /\ result.err = "MissingPrompts"
    /\ (Doc.meta.kind = "map" /\ Doc.prompts.kind = "map" /\ BadItems # {}) =>
         /\ result.status = "error" /\ result.err = "BadPromptEntry"
         /\ \E i \in BadItems : result.key = Items[i].k
    /\ (Doc.meta.kind = "map" /\ Doc.prompts.kind = "map" /\ BadItems = {}) =>
         /\ result.status = "ok"
         /\ Len(result.val[1]) = Len(Items)
         /\ \A i \in 1..Len(Items) :
              /\ result.val[1][i].k = Items[i].k.s
              /\ entry = "load_prompts" => result.val[1][i].v = Items[i].v.s
              /\ entry = "load_prompt_templates" =>
                   /\ result.val[1][i].v = SanitizePromptText(Items[i].v.s)
                   /\ NoBad(result.val[1][i].v)

\* load_prompt_templates returned two templates, one of them changed by the
\* sanitizer.
C10_Witness ==
  /\ pc = "done" /\ entry = "load_prompt_templates" /\ result.status = "ok"
  /\ Len(result.val[1]) = 2
  /\ Items[1].v.s = <<"nbsp", "a">>
  /\ result.val[1][1].v = <<" ", "a">>

(***************************************************************************)
(* Specification of the sanitizer: applied to a text, then to its result.  *)
(***************************************************************************)
\* _sanitize_prompt_text: anything that is no string is returned as it is
SanitizeValue(v) == IF v.t # "str" THEN v ELSE Str(SanitizePromptText(v.s))

InitSan ==
  /\ entry = "sanitize"
  /\ arg \in {Str(s) : s \in StrsOver(SanChars, MaxStrLen)} \cup {IntV(1)}
  /\ pc = "start"
  /\ out = NoResult /\ result = NoResult
  /\ file = Absent /\ raw = EmptyMap /\ fs = {} /\ proc = <<>>

SanitizeOnce ==
  /\ entry = "sanitize" /\ pc = "start"
  /\ out' = Returned(SanitizeValue(arg))
  /\ pc' = "once"
  /\ UNCHANGED <<entry, file, raw, result, arg, fs, proc>>

SanitizeAgain ==
  /\ entry = "sanitize" /\ pc = "once"
  /\ result' = Returned(SanitizeValue(out.val[1]))
  /\ pc' = "twice"
  /\ UNCHANGED <<entry, file, raw, out, arg, fs, proc>>

NextSan == SanitizeOnce \/ SanitizeAgain

SpecSan == InitSan /\ [][NextSan]_vars

\* C5 as stated: sanitize(sanitize(s)) = sanitize(s) for every string s over
\* the marked code points, space, carriage return and line feed.
C5_AsStated == (entry = "sanitize" /\ pc = "twice") => result = out

(***************************************************************************)
(* Directory ensurer.  A path is the sequence of its components; the file  *)
(* system is [dirs, files], the working directory <<>> always existing.    *)
(* Path.mkdir(parents=True, exist_ok=True) is the standard library's: it   *)
(* tries os.mkdir, on FileNotFoundError makes the parent and tries again,  *)
(* and on any other OSError asks is_dir().  Each system call is one step.  *)
(***************************************************************************)
NProcs == 2
Procs == 1..NProcs

Parent(p) == SubSeq(p, 1, Len(p) - 1)
ProperPrefixes(p) == {SubSeq(p, 1, k) : k \in 1..(Len(p) - 1)}
Prefixes(p) == {SubSeq(p, 1, k) : k \in 1..Len(p)}

\* class OutputsConfig: the defaults
DefaultOutputs ==
  [artifacts_dir |-> <<"artifacts">>, cache_dir |-> <<"artifacts", "cache">>,
   reports_dir |-> <<"artifacts", "reports">>]

\* a config whose artifacts_dir is nested in a directory that is no target
NestedOutputs ==
  [artifacts_dir |-> <<"out", "artifacts">>, cache_dir |-> <<"out", "artifacts", "cache">>,
   reports_dir |-> <<"reports">>]

\* ensure_dirs: the list `dirs`
DirsOf(cfg) ==
  <<cfg.artifacts_dir, cfg.cache_dir, cfg.reports_dir, <<"process_data">>, <<"raw_data">>>>

Targets(cfg) == {DirsOf(cfg)[i] : i \in 1..Len(DirsOf(cfg))}
Universe(cfg) == UNION {Prefixes(d) : d \in Targets(cfg)}

\* os.mkdir(p): the error it raises, or "OK"
OsMkdir(f, p) ==
  IF \E q \in ProperPrefixes(p) : q \in f.files THEN "ENOTDIR"
  ELSE IF \E q \in ProperPrefixes(p) : q \notin f.dirs THEN "ENOENT"
  ELSE IF p = <<>> \/ p \in f.dirs \cup f.files THEN "EEXIST"
  ELSE "OK"

IsDir(f, p) == p = <<>> \/ p \in f.dirs

Frame(p, parents) == [path |-> p, parents |-> parents, phase |-> "mkdir", err |-> ""]

\* a process: where it is in ensure_dirs, how it failed (err, at), and how many
\* calls of the others had returned when it entered (after)
NotStarted ==
  [pc |-> "idle", i |-> 0, stack |-> <<>>, err |-> "", at |-> <<>>, after |-> 0]

\* the innermost mkdir returned: back to its caller, or on to the next of dirs
Return(st, cfg) ==
  IF Len(st.stack) > 1 THEN [st EXCEPT !.stack = Tail(st.stack)]
  ELSE IF st.i < Len(DirsOf(cfg))
       THEN [st EXCEPT !.i = st.i + 1, !.stack = <<Frame(DirsOf(cfg)[st.i + 1], TRUE)>>]
       ELSE [st EXCEPT !.pc = "done", !.stack = <<>>]

\* an exception leaves mkdir: nothing on the way up catches it
Raise(st, e, p) == [st EXCEPT !.pc = "failed", !.stack = <<>>, !.err = e, !.at = p]

\* Faulty variant: mkdir without exist_ok: an OSError of os.mkdir is raised at once.
AfterMkdirNoExistOk(st, code, cfg) ==
  LET fr == Head(st.stack)
  IN  CASE code = "OK" -> Return(st, cfg)
        [] code = "ENOENT" /\ fr.parents /\ fr.path # <<>> ->
             [st EXCEPT !.stack = <<Frame(Parent(fr.path), TRUE), Frame(fr.path, FALSE)>>
                                    \o Tail(st.stack)]
        [] OTHER -> Raise(st, code, fr.path)

\* Faulty variant: the second attempt, after the parent was made, is without exist_ok.
AfterMkdirRetryNoExistOk(st, code, cfg) ==
  LET fr == Head(st.stack)
  IN  CASE code = "OK" -> Return(st, cfg)
        [] code = "ENOENT" /\ fr.parents /\ fr.path # <<>> ->
             [st EXCEPT !.stack = <<Frame(Parent(fr.path), TRUE), Frame(fr.path, FALSE)>>
                                    \o Tail(st.stack)]
        [] code = "ENOENT" -> Raise(st, code, fr.path)
        [] ~fr.parents -> Raise(st, code, fr.path)
        [] OTHER -> [st EXCEPT !.stack[1].phase = "isdir", !.stack[1].err = code]

\* Path.mkdir after os.mkdir returned or raised `code`
AfterMkdir(st, code, cfg) ==
  LET fr == Head(st.stack)
  IN  CASE code = "OK" -> Return(st, cfg)
        [] code = "ENOENT" /\ fr.parents /\ fr.path # <<>> ->
             [st EXCEPT !.stack = <<Frame(Parent(fr.path), TRUE), Frame(fr.path, FALSE)>>
                                    \o Tail(st.stack)]
        [] code = "ENOENT" -> Raise(st, code, fr.path)
        [] OTHER -> [st EXCEPT !.stack[1].phase = "isdir", !.stack[1].err = code]

\* file systems the processes may start in: directories closed under parent,
\* and at most one regular file, in an existing directory
StartFs(cfg) ==
  {f \in [dirs : SUBSET Universe(cfg),
          files : {{}} \cup {{x} : x \in Universe(cfg)}] :
     /\ \A d \in f.dirs : ProperPrefixes(d) \subseteq f.dirs
     /\ \A x \in f.files : x \notin f.dirs /\ ProperPrefixes(x) \subseteq f.dirs}

InitDirs ==
  /\ entry = "ensure_dirs"
  /\ arg \in {DefaultOutputs, NestedOutputs}
  /\ fs \in StartFs(arg)
  /\ proc = [p \in Procs |-> NotStarted]
  /\ pc = "run"
  /\ file = Absent /\ raw = EmptyMap /\ result = NoResult /\ out = NoResult

\* a process enters ensure_dirs
EnsureDirsStart(p) ==
  /\ entry = "ensure_dirs" /\ proc[p].pc = "idle"
  /\ proc' = [proc EXCEPT ![p] =
                [@ EXCEPT !.pc = "run", !.i = 1,
                          !.stack = <<Frame(DirsOf(arg)[1], TRUE)>>,
                          !.after = Cardinality({q \in Procs : proc[q].pc = "done"})]]
  /\ UNCHANGED <<pc, entry, file, raw, result, arg, out, fs>>

\* os.mkdir inside Path.mkdir
MkdirStep(p) ==
  /\ entry = "ensure_dirs" /\ proc[p].pc = "run"
  /\ Head(proc[p].stack).phase = "mkdir"
  /\ LET path == Head(proc[p].stack).path
         code == OsMkdir(fs, path)
     IN  /\ fs' = IF code = "OK" THEN [fs EXCEPT !.dirs = @ \cup {path}] ELSE fs
         /\ proc' = [proc EXCEPT ![p] = AfterMkdir(proc[p], code, arg)]
  /\ UNCHANGED <<pc, entry, file, raw, result, arg, out>>

\* `if not exist_ok or not self.is_dir(): raise`
IsDirStep(p) ==
  /\ entry = "ensure_dirs" /\ proc[p].pc = "run"
  /\ Head(proc[p].stack).phase = "isdir"
  /\ proc' = [proc EXCEPT ![p] =
                IF IsDir(fs, Head(proc[p].stack).path) THEN Return(proc[p], arg)
                ELSE Raise(proc[p], Head(proc[p].stack).err, Head(proc[p].stack).path)]
  /\ UNCHANGED <<pc, entry, file, raw, result, arg, out, fs>>

NextDirs == \E p \in Procs : EnsureDirsStart(p) \/ MkdirStep(p) \/ IsDirStep(p)

SpecDirs == InitDirs /\ [][NextDirs]_vars

(***************************************************************************)
(* C8, C9 -- ensure_dirs called again, and called concurrently.            *)
(***************************************************************************)
Failed(p) == proc[p].pc = "failed"
Done(p) == proc[p].pc = "done"

\* C8: once a call of ensure_dirs has returned, a further call with the same
\* config raises nothing and leaves the file system as it was; when a call
\* returns, the three configured directories, process_data and raw_data exist;
\* and no call fails at a path that exists as a directory.
C8_Idempotent ==
  [][entry = "ensure_dirs" =>
       /\ (\E p \in Procs : Done(p)) =>
            /\ fs' = fs
            /\ \A q \in Procs : proc'[q].pc = "failed" => Failed(q)
       /\ \A p \in Procs : proc'[p].pc = "done" => Targets(arg) \subseteq fs'.dirs
       /\ \A p \in Procs : proc'[p].pc = "failed" => proc'[p].at \notin fs'.dirs]_vars

\* A call that was entered after another had returned has returned too.
C8_Witness ==
  /\ entry = "ensure_dirs"
  /\ \E p \in Procs : Done(p) /\ proc[p].after >= 1

\* C9: however the processes running ensure_dirs on the same paths interleave,
\* none fails with an "already exists" error because of a directory (a process
\* fails only where a regular file is in the way), and when none is left
\* running every target directory exists unless a file was in the way.
C9_ConcurrentSafe ==
  entry = "ensure_dirs" =>
    /\ \A p \in Procs : Failed(p) =>
         \E x \in Prefixes(proc[p].at) : x \in fs.files
    /\ (fs.files = {} /\ \A p \in Procs : Done(p)) => Targets(arg) \subseteq fs.dirs
    /\ fs.files = {} => \A p \in Procs : ~Failed(p)

\* A process found the parent missing, and by its second os.mkdir the
\* directory had been made by another process: it is asking is_dir().
C9_Witness ==
  /\ entry = "ensure_dirs" /\ fs.files = {}
  /\ \E p \in Procs :
       /\ proc[p].pc = "run"
       /\ Head(proc[p].stack).phase = "isdir"
       /\ ~Head(proc[p].stack).parents
       /\ Head(proc[p].stack).err = "EEXIST"

(***************************************************************************)
(* C11 -- load_prompt and its two key spellings.                           *)
(***************************************************************************)
PromptDone == entry = "load_prompt" /\ pc = "done" /\ file.exists /\ file.root.kind = "map"
Spaced == Doc.system_prompt_spaced
Plain == Doc.system_prompt

\* a string with a character that trimming leaves
NonBlank(v) == v.t = "str" /\ \E i \in 1..Len(v.s) : v.s[i] \notin Whitespace

PromptReturns(s) == result.status = "ok" /\ result.val = <<s>>
PromptFails == result.status = "error" /\ result.err = "EmptyPrompt"

\* C11 as stated: when `System Prompt` or `system_prompt` holds a string that is
\* non-blank after trimming, load_prompt returns such a string unchanged; it
\* fails if and only if neither key holds one.
C11_AsStated ==
  PromptDone =>
    /\ (NonBlank(Spaced) \/ NonBlank(Plain)) =>
         \/ NonBlank(Spaced) /\ PromptReturns(Spaced.s)
         \/ NonBlank(Plain) /\ PromptReturns(Plain.s)
    /\ result.status = "error" <=> (~NonBlank(Spaced) /\ ~NonBlank(Plain))

\* C11 as amended: `system_prompt` is read only when `System Prompt` is absent
\* or null.  A non-blank string under `System Prompt` is returned unchanged;
\* with `System Prompt` absent or null, a non-blank string under `system_prompt`
\* is returned unchanged; in every other case load_prompt fails, also when
\* `System Prompt` is blank or no string and `system_prompt` is non-blank.
C11_KeyPrecedence ==
  PromptDone =>
    /\ NonBlank(Spaced) => PromptReturns(Spaced.s)
    /\ (Spaced.t \in {"absent", "null"} /\ NonBlank(Plain)) => PromptReturns(Plain.s)
    /\ (Spaced.t \in {"absent", "null"} /\ ~NonBlank(Plain)) => PromptFails
    /\ (Spaced.t \notin {"absent", "null"} /\ ~NonBlank(Spaced)) => PromptFails

\* `System Prompt` is missing and the string under `system_prompt` is returned
\* with its leading space.
C11_Witness ==
  /\ PromptDone
  /\ Spaced = Absent /\ Plain = Str(<<" ", "a">>)
  /\ PromptReturns(<<" ", "a">>)

(***************************************************************************)
(* Gemini client (functions/llm/client.py).  The environment gives each    *)
(* variable as "unset", "" (set to the empty string) or "set".             *)
(* build_gemini_client is taken in its three steps: the API key check, the *)
(* model name resolution, the client construction.                         *)
(***************************************************************************)
EnvValues == {"unset", "", "set"}
Environments == [GEMINI_API_KEY : EnvValues, MY_KEY : EnvValues, GEMINI_MODEL : EnvValues]

\* os.environ.get(name)
EnvGet(env, name) ==
  CASE name = <<"GEMINI_API_KEY">> -> env.GEMINI_API_KEY
    [] name = <<"MY_KEY">> -> env.MY_KEY
    [] name = <<"GEMINI_MODEL">> -> env.GEMINI_MODEL
    [] OTHER -> "unset"

\* `if not x` for the value of os.environ.get
EnvMissing(v) == v \in {"unset", ""}

NoClient == [status |-> "none", err |-> "", resolved |-> FALSE, constructed |-> FALSE]

\* Faulty variant: the environment variable is not looked at before going on.
ApiKeyCheckSkipped(cfg, env) ==
  IF cfg.api_key_env = <<>> THEN "ValueError" ELSE ""

\* build_gemini_client up to the API key: the error raised, or ""
ApiKeyCheck(cfg, env) ==
  IF cfg.api_key_env = <<>> THEN "ValueError"
  ELSE IF EnvMissing(EnvGet(env, cfg.api_key_env)) THEN "MissingEnvironment"
  ELSE ""

\* get_model_name on a CredentialsConfig, which has no model_name: the error
\* raised, or ""
ModelNameCheck(env, override) ==
  IF override THEN ""
  ELSE IF ~EnvMissing(env.GEMINI_MODEL) THEN ""
  ELSE "ValueError"

\* load_credentials as a whole
CredentialsLoad(f) ==
  IF ~LoadYaml(f).ok THEN Raised(LoadYaml(f).err, {}, Absent)
  ELSE CredentialsOf(LoadYaml(f).data)

InitClient ==
  /\ entry = "build_gemini_client"
  /\ file \in FilesFor("load_credentials")
  /\ arg \in [env : Environments, override : BOOLEAN]
  /\ pc = "start"
  /\ raw = EmptyMap /\ result = NoResult /\ out = NoClient
  /\ fs = {} /\ proc = <<>>

\* load_credentials at start-up
ClientLoadCredentials ==
  /\ entry = "build_gemini_client" /\ pc = "start"
  /\ result' = CredentialsLoad(file)
  /\ raw' = LoadYaml(file).data
  /\ pc' = IF result'.status = "ok" THEN "loaded" ELSE "done"
  /\ UNCHANGED <<entry, file, arg, out, fs, proc>>

\* build_gemini_client: api_key_env and the environment variable it names
ClientCheckApiKey ==
  /\ entry = "build_gemini_client" /\ pc = "loaded"
  /\ LET e == ApiKeyCheck(result.val[1], arg.env)
     IN  IF e = "" THEN pc' = "checked" /\ out' = out
         ELSE pc' = "done" /\ out' = [out EXCEPT !.status = "error", !.err = e]
  /\ UNCHANGED <<entry, file, raw, result, arg, fs, proc>>

\* build_gemini_client: get_model_name
ClientResolveModel ==
  /\ entry = "build_gemini_client" /\ pc = "checked"
  /\ LET e == ModelNameCheck(arg.env, arg.override)
     IN  IF e = "" THEN pc' = "resolved" /\ out' = [out EXCEPT !.resolved = TRUE]
         ELSE /\ pc' = "done"
              /\ out' = [out EXCEPT !.resolved = TRUE, !.status = "error", !.err = e]
  /\ UNCHANGED <<entry, file, raw, result, arg, fs, proc>>

\* build_gemini_client: genai.Client(api_key=api_key) and the return
ClientConstruct ==
  /\ entry = "build_gemini_client" /\ pc = "resolved"
  /\ out' = [out EXCEPT !.constructed = TRUE, !.status = "ok"]
  /\ pc' = "done"
  /\ UNCHANGED <<entry, file, raw, result, arg, fs, proc>>

NextClient ==
  \/ ClientLoadCredentials
  \/ ClientCheckApiKey
  \/ ClientResolveModel
  \/ ClientConstruct

SpecClient == InitClient /\ [][NextClient]_vars

(***************************************************************************)
(* C12 -- the API key variable is looked up at use, not at load.           *)
(***************************************************************************)
KeyVarMissing ==
  /\ result.status = "ok"
  /\ result.val[1].api_key_env # <<>>
  /\ \/ result.val[1].api_key_env = <<"GEMINI_API_KEY">> /\ arg.env.GEMINI_API_KEY \in {"unset", ""}
     \/ result.val[1].api_key_env = <<"MY_KEY">> /\ arg.env.MY_KEY \in {"unset", ""}

GeminiOmitted ==
  /\ file.exists /\ file.root.kind = "map"
  /\ file.root.m.gemini.kind = "absent"

\* C12: load_credentials never raises the missing-environment error and gives
\* the same result whatever the environment holds (api_key_env GEMINI_API_KEY
\* and timeout_seconds 60 when `gemini` is omitted); when the named variable is
\* missing, build_gemini_client raises the missing-environment error, having
\* neither resolved the model name nor constructed the client.
C12_MissingKeyAtUse ==
  (entry = "build_gemini_client" /\ pc # "start") =>
    /\ result.err # "MissingEnvironment"
    /\ GeminiOmitted =>
         /\ result.status = "ok"
         /\ result.val[1].api_key_env = <<"GEMINI_API_KEY">>
         /\ result.val[1].timeout_seconds = 60
    /\ (file.exists /\ file.root.kind = "map" /\ file.root.m.gemini.kind = "map"
          /\ file.root.m.gemini.api_key_env.t = "str") =>
         result.status = "ok" /\ result.val[1].api_key_env = file.root.m.gemini.api_key_env.s
    /\ (KeyVarMissing /\ pc # "loaded") =>
         /\ out.status = "error" /\ out.err = "MissingEnvironment"
         /\ ~out.resolved /\ ~out.constructed
    /\ out.err = "MissingEnvironment" => (KeyVarMissing /\ ~out.resolved /\ ~out.constructed)
    /\ (out.resolved \/ out.constructed) => ~KeyVarMissing

\* `gemini` is omitted and GEMINI_API_KEY is not set, though a model name is at
\* hand: the load succeeded and build_gemini_client raised the
\* missing-environment error.
C12_Witness ==
  /\ entry = "build_gemini_client" /\ pc = "done"
  /\ GeminiOmitted /\ arg.env.GEMINI_API_KEY = "unset" /\ arg.override
  /\ result.status = "ok"
  /\ out.err = "MissingEnvironment" /\ ~out.resolved

====
